---------------------------- MODULE Spec2Model ----------------------------
(***************************************************************************)
(* Model of the command-execution orchestrator DeepRouteCompileCommands    *)
(* (src/unnamed/part_000): the single currentProcess handle, the processes *)
(* it spawns, the confirmation prompt, stop() and its 3-second timer, the  *)
(* container pre-checks, the artifact snapshots and the clangd refresh.    *)
(*                                                                         *)
(* The extension host is single threaded: every action below is the code   *)
(* that runs between two suspension points (an await, an event, a timer).  *)
(* child_process.spawnSync / execSync block the thread, so the container   *)
(* pre-checks and the path rewrite run inside the action that calls them.  *)
(***************************************************************************)
EXTENDS Integers, Sequences, FiniteSets, TLC

\* Number of execute() calls that can be in flight at the same time.
MaxInv == 2
\* Largest modification time of the artifact in the orchestrator model.
MaxMtime == 1
\* Largest modification time drawn for the snapshot-comparison model.
MaxCmpMtime == 9

VARIABLES
    workspaceRootValid, \* part_000:12  set once by the constructor
    currentProcess,     \* part_000:9   0 = undefined, else a process id
    procs,              \* the child process of each invocation slot
    timers,             \* pending setTimeout callbacks of stop(), FIFO
    inv,                \* the execute() call in flight in each slot
    artifact,           \* compile_commands.json on the host file system
    last,               \* the steps taken by the handler that ran last
    disposed,           \* deactivate() has run dispose()
    cmpBefore,          \* snapshot-comparison model: the two snapshots
    cmpAfter,
    cmpResult,          \* <<>> or <<result of isCompileCommandsUpdated>>
    exArgs,             \* mode-resolution model: the arguments of execute()
    exResult,           \* <<>> or <<state execute() left at its first await>>
    ansiText,           \* output model: the text given to append/appendLine
    ansiOut,            \* <<>> or <<text handed to the output channel>>
    dirCwd,             \* working-directory model: the cwd argument
    dirArgs,            \* <<>> or <<the -w and cd arguments of docker exec>>
    cfgList,            \* override model: the predefinedCommands setting
    cfgPick,            \* the entry or custom command the user executes
    cfgOverride,        \* <<>> or <<override passed to execute()>>
    rwRoot,             \* rewrite model: the workspace root
    rwFile,             \* the content of compile_commands.json
    rwLog,              \* result and content after each rewrite
    histStore,          \* history model: the persisted history
    histMem,            \* commandHistory
    histAdded,          \* <<>> or <<the pair added last>>
    histOps,            \* number of addToHistory and clearHistory calls
    togLists            \* toggle model: the setting before and after each toggle

vars == <<workspaceRootValid, currentProcess, procs, timers, inv, artifact,
          last, disposed, cmpBefore, cmpAfter, cmpResult, exArgs, exResult, ansiText,
          ansiOut, dirCwd, dirArgs, cfgList, cfgPick, cfgOverride, rwRoot,
          rwFile, rwLog, histStore, histMem, histAdded, histOps, togLists>>
orchVars == <<workspaceRootValid, currentProcess, procs, timers, inv, artifact,
              last, disposed>>
cmpVars == <<cmpBefore, cmpAfter, cmpResult>>
exVars == <<exArgs, exResult>>
ansiVars == <<ansiText, ansiOut>>
\* The variables of the models of single functions.
dirVars == <<dirCwd, dirArgs>>
cfgVars == <<cfgList, cfgPick, cfgOverride>>
rwVars == <<rwRoot, rwFile, rwLog>>
histVars == <<histStore, histMem, histAdded, histOps>>
funVars == <<cmpVars, exVars, ansiVars, dirVars, cfgVars, rwVars, histVars,
             togLists>>

\* `cwd` was not passed.
Undefined == <<"undefined">>
\* A custom command, typed by the user.
CustomPick(command) == [from |-> 0, command |-> command]

\* No call of the working-directory or of the override model is looked at.
DirIdle == dirCwd = Undefined /\ dirArgs = <<>>
CfgIdle == cfgList = <<>> /\ cfgPick = CustomPick("a") /\ cfgOverride = <<>>

\* No rewrite, history or toggle call is looked at.
RwIdle == rwRoot = <<>> /\ rwFile = <<>> /\ rwLog = <<>>
HistIdle == histStore = <<>> /\ histMem = <<>> /\ histAdded = <<>> /\ histOps = 0
TogIdle == togLists = <<>>

-----------------------------------------------------------------------------
(* The artifact file and its snapshots                                     *)

Absent == [exists |-> FALSE]
Present(t) == [exists |-> TRUE, mtime |-> t]
Files(max) == {Absent} \cup {Present(t) : t \in 0..max}

\* getFileStats: {exists: true, mtime} when existsSync and statSync succeed,
\* {exists: false} when the file is missing or statSync throws.
GetFileStats(f, statOk) ==
    IF f.exists /\ statOk THEN [exists |-> TRUE, mtime |-> f.mtime]
    ELSE [exists |-> FALSE]

\* `x.mtime` is truthy: the snapshot carries a Date.
HasMtime(s) == "mtime" \in DOMAIN s

IsCompileCommandsUpdatedGe(before, after) ==
    IF ~before.exists /\ after.exists THEN TRUE
    ELSE IF before.exists /\ after.exists /\ HasMtime(before) /\ HasMtime(after)
         THEN after.mtime >= before.mtime
         ELSE FALSE

\* isCompileCommandsUpdated
IsCompileCommandsUpdated(before, after) ==
    IF ~before.exists /\ after.exists THEN TRUE
    ELSE IF before.exists /\ after.exists /\ HasMtime(before) /\ HasMtime(after)
         THEN after.mtime > before.mtime
         ELSE FALSE

-----------------------------------------------------------------------------
(* Child processes                                                         *)
(*                                                                         *)
(* An execute() call occupies a slot from its start until its last handler *)
(* has finished; the process it spawns has the slot's number as its id.    *)

Slots == 1..MaxInv

NoProc ==
    [state |-> "none", term |-> FALSE, forced |-> FALSE, errored |-> FALSE]

\* child_process.spawn: a new ChildProcess.
\*   state   "running" until its close event has been delivered
\*   term    SIGTERM was delivered, forced: SIGKILL was delivered
\*   errored its error event has been delivered
NewProc ==
    [state |-> "running", term |-> FALSE, forced |-> FALSE, errored |-> FALSE]

\* ChildProcess.killed: set by a kill() that delivered its signal.
Killed(pr) == pr.term \/ pr.forced

\* ChildProcess.kill(sig): delivers the signal while the process has not
\* exited, and does nothing afterwards.
Kill(ps, p, sig) ==
    IF ps[p].state = "running"
    THEN [ps EXCEPT ![p].term = @ \/ sig = "SIGTERM",
                    ![p].forced = @ \/ sig = "SIGKILL"]
    ELSE ps

-----------------------------------------------------------------------------
(* Handlers, as functions of the orchestrator state they read and write:   *)
(*   s.cp = this.currentProcess, s.ps = the processes, s.ts = the timers,  *)
(*   s.af = the artifact, s.iv = the invocation the handler belongs to,    *)
(*   s.log = the steps this run of the handler has taken, in program order *)
(*   (a handler resumed after an await starts a new run).                  *)

\* pc: "free", "confirm" (awaiting the prompt), "spawned" (handlers are
\* registered), "getCommands", "restart" (awaiting inside restartClangd),
\* "done" (nothing left to run).
\* progress: the withProgress promise is pending (cancellation possible).
\* log: the steps taken so far by the handler that is suspended at an await.
FreeInv ==
    [mode |-> "none", pc |-> "free", before |-> Absent, progress |-> FALSE,
     log |-> <<>>]

NewInv(mode) == [FreeInv EXCEPT !.mode = mode, !.pc = "start"]

Log(s, kind, detail) == [s EXCEPT !.log = Append(@, <<kind, detail>>)]

\* An early `return` of execute / executeLocally / executeInDocker.
Return(s) == [s EXCEPT !.iv.pc = "done"]

\* The handler reaches an await and is resumed later at pc.
Suspend(s, pc) == [s EXCEPT !.iv.pc = pc, !.iv.log = s.log]

\* stop(): SIGTERM to the current process, arm the 3-second timer, clear
\* the handle. The timer closure holds no process: it is tagged here with
\* the process this stop() signalled so that properties can refer to it.
stop(s) ==
    IF s.cp # 0
    THEN [s EXCEPT !.ps = Kill(s.ps, s.cp, "SIGTERM"),
                   !.ts = Append(@, s.cp),
                   !.cp = 0]
    ELSE s

\* isRunning()
isRunning(cp) == cp # 0

\* dispose(): SIGKILL to the current process, clear the handle.
dispose(s) ==
    IF s.cp # 0
    THEN [s EXCEPT !.ps = Kill(s.ps, s.cp, "SIGKILL"), !.cp = 0]
    ELSE s

\* The timer callback of stop(): SIGKILL to whatever this.currentProcess
\* is when the timer fires, unless that process has `killed` set.
TimerCallback(cp, ps) ==
    IF cp # 0 /\ ~Killed(ps[cp]) THEN Kill(ps, cp, "SIGKILL") ELSE ps

ConfirmedNotCancel(answer) == answer # "Cancel"

\* shouldStop === 'Stop and Execute New Command'
Confirmed(answer) == answer = "Stop and Execute New Command"

AwaitsProgressAlways(mode) == TRUE

\* executeLocally awaits the promise of withProgress (line 371),
\* executeInDocker calls withProgress without awaiting it (line 171).
AwaitsProgress(mode) == mode = "local"

\* The body of withProgress: spawn, store the handle, register handlers.
\* Where the promise of withProgress is not awaited, the function returns
\* once the task has been started and the promise of execute() resolves.
Spawn(s, i) ==
    LET s1 == [s EXCEPT !.ps[i] = NewProc,
                        !.cp = i,
                        !.iv.pc = "spawned",
                        !.iv.progress = TRUE]
        s2 == Log(s1, "spawn", "")
    IN  IF AwaitsProgress(s.iv.mode) THEN s2 ELSE Log(s2, "resolved", "")

\* const beforeStats = this.getFileStats(compileCommandsPath)
TakeBefore(s, statOk) ==
    Log([s EXCEPT !.iv.before = GetFileStats(s.af, statOk)], "before", "")

LocalBodySpawnFirst(s, i, in) ==
    IF in.cwd = "missing"
    THEN Return(Log(s, "dir_missing", ""))
    ELSE TakeBefore(Spawn(s, i), in.statOk)

LocalBodySnapshotFirst(s, i, in) ==
    IF in.cwd = "missing"
    THEN Return(Log(TakeBefore(s, in.statOk), "dir_missing", ""))
    ELSE Spawn(TakeBefore(s, in.statOk), i)

\* executeLocally after the single-flight guard: directory check, before
\* snapshot, spawn.
LocalBody(s, i, in) ==
    IF in.cwd = "missing"
    THEN Return(Log(s, "dir_missing", ""))
    ELSE Spawn(TakeBefore(s, in.statOk), i)

NowRunningAny(verify) == verify # "error"

\* nowRunning = verifyResult.status === 0 && stdout.trim() === 'true'
NowRunning(verify) == verify = "true"

\* The container does not exist: `docker ps -a` is run for the diagnostic
\* and the container-not-found error is shown. list is what spawnSync
\* answers: "names" (stdout holds names), "empty" (stdout is empty, also
\* when docker ps exits with an error), "error" (docker could not be run:
\* listResult.stdout is null and stdout.toString() throws a TypeError that
\* leaves executeInDocker).
ContainerNotFound(s, list) ==
    LET s1 == Log(s, "list", list)
    IN  IF list = "error" THEN Return(Log(s1, "throw", ""))
        ELSE Return(Log(Log(s1, "diagnostic", list), "notfound", ""))

StartFailedNever(start) == FALSE

\* startResult.error || startResult.status !== 0
StartFailed(start) == start # "ok"

\* executeInDocker after the single-flight guard: inspect, (list), (start,
\* re-inspect), before snapshot, spawn.
DockerBody(s, i, in) ==
    LET s1 == Log(s, "inspect", in.inspect)
    IN  CASE in.inspect = "error" -> Return(s1)
          [] in.inspect = "notfound" -> ContainerNotFound(s1, in.list)
          [] in.inspect = "failed" -> Return(s1)
          [] in.inspect = "true" -> Spawn(TakeBefore(s1, in.statOk), i)
          [] in.inspect = "false" ->
                LET s2 == Log(s1, "start", in.start)
                IN  IF StartFailed(in.start) THEN Return(s2)
                    ELSE LET s3 == Log(s2, "inspect", in.verify)
                         IN  IF ~NowRunning(in.verify) THEN Return(s3)
                             ELSE Spawn(TakeBefore(s3, in.statOk), i)

Body(s, i, in) ==
    IF s.iv.mode = "local"
    THEN LocalBody(Log(s, "mode", "local"), i, in)
    ELSE DockerBody(Log(s, "mode", "docker"), i, in)

\* The single-flight guard of executeLocally / executeInDocker, up to the
\* await of the confirmation prompt.
Guard(s, i, in) ==
    IF s.cp # 0
    THEN Suspend(Log(s, "ask", ""), "confirm")
    ELSE Body(s, i, in)

\* The continuation of the guard once the prompt is answered.
Answered(s, i, answer, in) ==
    LET s1 == Log(s, "answer", answer)
    IN  IF ~Confirmed(answer) THEN Return(s1) ELSE Body(stop(s1), i, in)

ShouldExecuteLocallyOverrideWins(executeLocally, globalExecuteLocally) ==
    IF executeLocally = "undefined" THEN globalExecuteLocally
    ELSE executeLocally = "true"

\* executeLocally === true || globalExecuteLocally === true
ShouldExecuteLocally(executeLocally, globalExecuteLocally) ==
    executeLocally = "true" \/ globalExecuteLocally

executeNameUnchecked(s, i, executeLocally, globalExecuteLocally, containerName, in) ==
    IF ~workspaceRootValid
    THEN Return(Log(s, "reject", "root"))
    ELSE IF executeLocally = "true" \/ globalExecuteLocally
    THEN Guard([s EXCEPT !.iv.mode = "local"], i, in)
    ELSE Guard([s EXCEPT !.iv.mode = "docker"], i, in)

executeRootUnchecked(s, i, executeLocally, globalExecuteLocally, containerName, in) ==
    IF executeLocally = "true" \/ globalExecuteLocally
    THEN Guard([s EXCEPT !.iv.mode = "local"], i, in)
    ELSE IF containerName = "blank"
    THEN Return(Log(s, "reject", "container"))
    ELSE Guard([s EXCEPT !.iv.mode = "docker"], i, in)

\* execute(): workspace check, mode resolution, container-name check.
execute(s, i, executeLocally, globalExecuteLocally, containerName, in) ==
    IF ~workspaceRootValid
    THEN Return(Log(s, "reject", "root"))
    ELSE IF ShouldExecuteLocally(executeLocally, globalExecuteLocally)
    THEN Guard([s EXCEPT !.iv.mode = "local"], i, in)
    ELSE IF containerName = "blank"
    THEN Return(Log(s, "reject", "container"))
    ELSE Guard([s EXCEPT !.iv.mode = "docker"], i, in)

-----------------------------------------------------------------------------
(* The close handler and restartClangd                                     *)

\* The tail of the error and close handlers:
\*   this.currentProcess = undefined; resolve();
Finish(s) == [s EXCEPT !.cp = 0, !.iv.progress = FALSE]

NoReplacementNeededNever(probe) == FALSE

\* grepResult.status !== 0: the probe did not find /sandbox in the file.
NoReplacementNeeded(probe) == probe # "found"

\* replaceCompileCommandsPath: existence check, grep probe, sed -i.
\* rw.r is what the file system and the tools answer: "throws" (statSync or
\* spawnSync throws), "nomarker" (grep finds no /sandbox), "sed_failed",
\* "sed_ok". A successful sed -i rewrites the file at time rw.now.
\* Log entries: "probe" is what grep -q answered, "sed" that sed -i was
\* run and how it ended, "rewrite" what the function reported.
ReplaceCompileCommandsPath(s, rw) ==
    IF ~s.af.exists THEN Log(s, "rewrite", "absent")
    ELSE IF rw.r = "throws" THEN Log(s, "rewrite", "error")
    ELSE LET probe == IF rw.r = "nomarker" THEN "none" ELSE "found"
             s1 == Log(s, "probe", probe)
         IN  IF NoReplacementNeeded(probe) THEN Log(s1, "rewrite", "noop")
             ELSE IF rw.r = "sed_ok"
             THEN Log(Log([s1 EXCEPT !.af = Present(IF rw.now > s.af.mtime
                                                    THEN rw.now
                                                    ELSE s.af.mtime)],
                          "sed", "ok"),
                      "rewrite", "ok")
             ELSE Log(Log(s1, "sed", "failed"), "rewrite", "failed")

\* restartClangd up to `await vscode.commands.getCommands()`.
RestartClangdBegin(s, rw) ==
    Suspend(ReplaceCompileCommandsPath(s, rw), "getCommands")

\* What getCommands() lists: "none" (no command starting with 'clangd'),
\* "restart" (clangd.restart is registered), "other" (commands starting
\* with 'clangd', clangd.restart not among them).
CommandLists == {"none", "restart", "other"}

ClangdDetectedAlways(allCommands) == TRUE

\* clangdCommands.length !== 0
ClangdDetected(allCommands) == allCommands # "none"

\* restartClangd after getCommands returned: without a clangd command it
\* warns and returns to the close handler, which finishes; otherwise it
\* calls executeCommand('clangd.restart') and awaits it.
RestartClangdCommands(s, allCommands) ==
    LET s1 == Log(s, "getCommands", allCommands)
    IN  IF ~ClangdDetected(allCommands)
        THEN Return(Finish(s1))
        ELSE Suspend(Log(s1, "refresh", ""), "restart")

RestartClangdEndUncaught(s, ok) ==
    IF ok THEN Return(Finish(Log(s, "restarted", "ok")))
    ELSE Return(Log(Log(s, "restarted", "failed"), "throw", ""))

\* restartClangd after executeCommand settled (a rejection is caught), and
\* the rest of the close handler.
RestartClangdEnd(s, ok) ==
    Return(Finish(Log(s, "restarted", IF ok THEN "ok" ELSE "failed")))

CloseSuccessAlwaysRestart(s, statOk, rw) ==
    LET after == GetFileStats(s.af, statOk)
        changed == IsCompileCommandsUpdated(s.iv.before, after)
        s1 == Log(Log(s, "after", ""), "compare",
                  IF changed THEN "changed" ELSE "unchanged")
    IN  RestartClangdBegin(s1, rw)

\* The `code === 0` branch of the close handler: after snapshot, compare,
\* and restartClangd when the artifact was updated.
CloseSuccess(s, statOk, rw) ==
    LET after == GetFileStats(s.af, statOk)
        changed == IsCompileCommandsUpdated(s.iv.before, after)
        s1 == Log(Log(s, "after", ""), "compare",
                  IF changed THEN "changed" ELSE "unchanged")
    IN  IF changed THEN RestartClangdBegin(s1, rw) ELSE Return(Finish(s1))

OnCloseAnyExit(s, p, outcome, statOk, rw) ==
    LET s1 == Log([s EXCEPT !.ps[p].state = "closed"], "close", outcome)
    IN  IF outcome = "signal" THEN Return(Finish(s1))
        ELSE CloseSuccess(s1, statOk, rw)

\* The close handler of process p: (code, signal) is abstracted to outcome
\* "signal" (signal set), "zero" (code 0) or "nonzero".
OnClose(s, p, outcome, statOk, rw) ==
    LET s1 == Log([s EXCEPT !.ps[p].state = "closed"], "close", outcome)
    IN  IF outcome = "signal" THEN Return(Finish(s1))
        ELSE IF outcome = "zero" THEN CloseSuccess(s1, statOk, rw)
        ELSE Return(Finish(s1))

\* The error handler of process p.
OnError(s, p) == Finish(Log([s EXCEPT !.ps[p].errored = TRUE], "error", ""))

\* token.onCancellationRequested: this.stop(); resolve();
OnCancel(s) == [Log(stop(s), "cancel", "") EXCEPT !.iv.progress = FALSE]

-----------------------------------------------------------------------------
(* Inputs: what the user, the configuration and the environment answer     *)

Overrides == {"true", "false", "undefined"}
Answers == {"Stop and Execute New Command", "Cancel", "dismissed"}
Outcomes == {"signal", "zero", "nonzero"}

\* What the file system and the container runtime answer to one run of
\* executeLocally / executeInDocker. cwd: "none" (no working directory
\* given), "exists", "missing". The answers of calls that are not reached
\* are fixed to one value.
BodyInputs ==
    {in \in [cwd : {"none", "exists", "missing"},
             inspect : {"error", "notfound", "failed", "true", "false"},
             list : {"names", "empty", "error"},
             start : {"ok", "failed"},
             verify : {"true", "false", "error"},
             statOk : BOOLEAN] :
        /\ in.cwd # "none" => in.inspect = "true"
        /\ in.inspect # "notfound" => in.list = "names"
        /\ in.inspect # "false" => in.start = "ok"
        /\ (in.inspect # "false" \/ in.start # "ok") => in.verify = "true"
        /\ (in.inspect \in {"error", "notfound", "failed"}
            \/ in.start # "ok" \/ in.verify # "true") => in.statOk}

\* The answers when nothing is asked.
NoInput ==
    [cwd |-> "none", inspect |-> "true", list |-> "names", start |-> "ok",
     verify |-> "true", statOk |-> TRUE]

\* The arguments of execute() and the two settings it reads, when no call
\* is being looked at.
NoArgs ==
    [executeLocally |-> "undefined", globalExecuteLocally |-> FALSE,
     containerName |-> "named", in |-> NoInput]

NoRewrite == [r |-> "nomarker", now |-> 0]

RewriteInputs ==
    {[r |-> x, now |-> 0] : x \in {"throws", "nomarker", "sed_failed"}}
    \cup {[r |-> "sed_ok", now |-> t] : t \in 0..MaxMtime}

-----------------------------------------------------------------------------
(* Actions                                                                 *)

\* The state a handler of the invocation in slot i starts from when an
\* event (a call, a cancellation, a process event) starts it.
State(i) ==
    [cp |-> currentProcess, ps |-> procs, ts |-> timers, af |-> artifact,
     iv |-> inv[i], log |-> <<>>]

\* The state the handler suspended in slot i resumes from.
Resume(i) == [State(i) EXCEPT !.iv.log = <<>>, !.log = inv[i].log]

Idle == [slot |-> 0, log |-> <<>>]

ClosedProc ==
    [state |-> "closed", term |-> FALSE, forced |-> FALSE, errored |-> FALSE]

\* What is kept of the objects nothing reads any more. A slot is released
\* once its invocation has nothing left to run, its process has closed and
\* no pending timer was armed for that process. The flags of a closed
\* process are dropped (kill() on it does nothing), and so are the mode of
\* an invocation past its guard and the before snapshot of one whose close
\* handler has compared it.
Release(iv, ps, ts) ==
    LET gone(i) == iv[i].pc \in {"done", "free"} /\ ps[i].state # "running"
        held(i) == \E k \in DOMAIN ts : ts[k] = i
    IN  [iv |-> [i \in Slots |->
                   IF gone(i) THEN FreeInv
                   ELSE [iv[i] EXCEPT
                           !.mode = IF iv[i].pc = "confirm" THEN @ ELSE "none",
                           !.before = IF iv[i].pc = "spawned" THEN @ ELSE Absent]],
         ps |-> [i \in Slots |->
                   IF ps[i].state # "closed" THEN ps[i]
                   ELSE IF gone(i) /\ ~held(i) THEN NoProc ELSE ClosedProc]]

\* Write back the state a handler of the invocation in slot i produced.
Commit(s, i) ==
    LET r == Release([inv EXCEPT ![i] = s.iv], s.ps, s.ts)
    IN  /\ ~disposed
        /\ currentProcess' = s.cp
        /\ procs' = r.ps
        /\ timers' = s.ts
        /\ artifact' = s.af
        /\ inv' = r.iv
        /\ last' = [slot |-> i, log |-> s.log]
        /\ UNCHANGED <<workspaceRootValid, disposed, funVars>>

\* The answers an execute() call can draw: none when it is rejected or
\* stops at the prompt, those of the file system in local mode, those of
\* the container runtime in container mode.
ExecuteInputs(executeLocally, globalExecuteLocally, containerName) ==
    IF currentProcess # 0 \/ ~workspaceRootValid THEN {NoInput}
    ELSE IF ShouldExecuteLocally(executeLocally, globalExecuteLocally)
    THEN {in \in BodyInputs : in.inspect = "true"}
    ELSE IF containerName = "blank" THEN {NoInput}
    ELSE {in \in BodyInputs : in.cwd = "none"}

FreeSlot(i) == inv[i].pc = "free" /\ procs[i].state = "none"

\* execute(command, cwd, executeLocally), run up to its first suspension.
Execute(i, executeLocally, globalExecuteLocally, containerName) ==
    /\ FreeSlot(i)
    /\ \A j \in Slots : FreeSlot(j) => i <= j
    /\ \E in \in ExecuteInputs(executeLocally, globalExecuteLocally, containerName) :
           Commit(execute([State(i) EXCEPT !.iv = NewInv("none")], i,
                          executeLocally, globalExecuteLocally, containerName,
                          in), i)

\* The confirmation prompt of invocation i is answered or dismissed.
Answer(i, answer) ==
    /\ inv[i].pc = "confirm"
    /\ \E in \in BodyInputs :
           Commit(Answered(Resume(i), i, answer, in), i)

\* The progress notification of invocation i is cancelled.
Cancel(i) ==
    /\ inv[i].progress
    /\ Commit(OnCancel(State(i)), i)

\* The stop verb (extension.ts stopCommand).
StopCommand ==
    LET s == stop([cp |-> currentProcess, ps |-> procs, ts |-> timers])
    IN  /\ ~disposed
        /\ currentProcess' = s.cp
        /\ procs' = s.ps
        /\ timers' = s.ts
        /\ last' = [slot |-> 0, log |-> <<<<"stop", "">>>>]
        /\ UNCHANGED <<workspaceRootValid, inv, artifact, disposed, funVars>>

\* deactivate() (extension.ts): dispose(). It is the last code of the
\* extension that runs: no handler, timer or command runs after it.
Dispose ==
    LET s == dispose([cp |-> currentProcess, ps |-> procs])
    IN  /\ ~disposed
        /\ disposed' = TRUE
        /\ currentProcess' = s.cp
        /\ procs' = s.ps
        /\ last' = [slot |-> 0, log |-> <<<<"dispose", "">>>>]
        /\ UNCHANGED <<workspaceRootValid, timers, inv, artifact, funVars>>

\* The oldest 3-second timer of stop() expires.
TimerFires ==
    /\ ~disposed
    /\ timers # <<>>
    /\ timers' = Tail(timers)
    /\ procs' = Release(inv, TimerCallback(currentProcess, procs), Tail(timers)).ps
    /\ last' = [slot |-> 0, log |-> <<<<"timer", "">>>>]
    /\ UNCHANGED <<workspaceRootValid, currentProcess, inv, artifact, disposed,
                   funVars>>

\* Process p emits 'error' (spawn failure, failed kill).
ProcessError(p) ==
    /\ procs[p].state = "running"
    /\ ~procs[p].errored
    /\ Commit(OnError(State(p), p), p)

\* Process p has exited and its streams are closed: 'close' is emitted. A
\* process that was delivered SIGKILL ends by that signal.
ProcessClose(p, outcome) ==
    /\ procs[p].state = "running"
    /\ procs[p].forced => outcome = "signal"
    /\ \E statOk \in (IF outcome = "zero" THEN BOOLEAN ELSE {TRUE}),
          rw \in (IF outcome = "zero" THEN RewriteInputs ELSE {NoRewrite}) :
           Commit(OnClose(State(p), p, outcome, statOk, rw), p)

\* getCommands() returns to restartClangd of invocation i.
GetCommandsReturns(i, allCommands) ==
    /\ inv[i].pc = "getCommands"
    /\ Commit(RestartClangdCommands(Resume(i), allCommands), i)

\* executeCommand('clangd.restart') settles for invocation i; it rejects
\* when clangd.restart is not a registered command.
RestartReturns(i, ok) ==
    /\ inv[i].pc = "restart"
    /\ ok => \E k \in DOMAIN inv[i].log : inv[i].log[k] = <<"getCommands", "restart">>
    /\ Commit(RestartClangdEnd(Resume(i), ok), i)

\* The environment (the running command, the user) writes, touches or
\* deletes the artifact.
ArtifactChanges(f) ==
    /\ ~disposed
    /\ f # artifact
    /\ artifact' = f
    /\ last' = Idle
    /\ UNCHANGED <<workspaceRootValid, currentProcess, procs, timers, inv,
                   disposed, funVars>>

Init ==
    /\ workspaceRootValid \in BOOLEAN
    /\ currentProcess = 0
    /\ procs = [i \in Slots |-> NoProc]
    /\ timers = <<>>
    /\ inv = [i \in Slots |-> FreeInv]
    /\ artifact \in Files(MaxMtime)
    /\ last = Idle
    /\ disposed = FALSE
    /\ cmpBefore = Absent
    /\ cmpAfter = Absent
    /\ cmpResult = <<>>
    /\ exArgs = NoArgs
    /\ exResult = <<>>
    /\ ansiText = <<>>
    /\ ansiOut = <<>>
    /\ DirIdle /\ CfgIdle
    /\ RwIdle /\ HistIdle /\ TogIdle

Next ==
    \/ \E i \in Slots, o \in Overrides, g \in BOOLEAN, c \in {"blank", "named"} :
           Execute(i, o, g, c)
    \/ \E i \in Slots, a \in Answers : Answer(i, a)
    \/ \E i \in Slots : Cancel(i)
    \/ StopCommand
    \/ Dispose
    \/ TimerFires
    \/ \E p \in Slots : ProcessError(p)
    \/ \E p \in Slots, o \in Outcomes : ProcessClose(p, o)
    \/ \E i \in Slots, c \in CommandLists : GetCommandsReturns(i, c)
    \/ \E i \in Slots, ok \in BOOLEAN : RestartReturns(i, ok)
    \/ \E f \in Files(MaxMtime) : ArtifactChanges(f)

Spec == Init /\ [][Next]_vars

\* The close handling under fair scheduling: a pending getCommands() or
\* executeCommand() promise of each invocation settles, and the event loop
\* then runs its continuation. The steps are those of the requests, their
\* prompts, the process closes and the artifact; stop, cancellation, error
\* events and the timer write only the handle and the process flags, which
\* no step of the close handling reads.
LiveNext ==
    \/ \E i \in Slots, o \in Overrides, g \in BOOLEAN, c \in {"blank", "named"} :
           Execute(i, o, g, c)
    \/ \E i \in Slots, a \in Answers : Answer(i, a)
    \/ \E p \in Slots, o \in Outcomes : ProcessClose(p, o)
    \/ \E i \in Slots, c \in CommandLists : GetCommandsReturns(i, c)
    \/ \E i \in Slots, ok \in BOOLEAN : RestartReturns(i, ok)
    \/ \E f \in Files(MaxMtime) : ArtifactChanges(f)

SpecLive ==
    /\ Init /\ [][LiveNext]_vars
    /\ \A i \in Slots :
          /\ WF_vars(\E c \in CommandLists : GetCommandsReturns(i, c))
          /\ WF_vars(\E ok \in BOOLEAN : RestartReturns(i, ok))

-----------------------------------------------------------------------------
(* The snapshot comparison on its own: every pair of snapshots that        *)
(* getFileStats can return, compared by isCompileCommandsUpdated.          *)

CmpSnapshots == {GetFileStats(f, ok) : f \in Files(MaxCmpMtime), ok \in BOOLEAN}

CmpInit ==
    /\ workspaceRootValid = TRUE
    /\ currentProcess = 0
    /\ procs = [i \in Slots |-> NoProc]
    /\ timers = <<>>
    /\ inv = [i \in Slots |-> FreeInv]
    /\ artifact = Absent
    /\ last = Idle
    /\ disposed = FALSE
    /\ cmpBefore \in CmpSnapshots
    /\ cmpAfter \in CmpSnapshots
    /\ cmpResult = <<>>
    /\ exArgs = NoArgs
    /\ exResult = <<>>
    /\ ansiText = <<>>
    /\ ansiOut = <<>>
    /\ DirIdle /\ CfgIdle
    /\ RwIdle /\ HistIdle /\ TogIdle

CmpCompare ==
    /\ cmpResult = <<>>
    /\ cmpResult' = <<IsCompileCommandsUpdated(cmpBefore, cmpAfter)>>
    /\ UNCHANGED <<orchVars, cmpBefore, cmpAfter, exVars, ansiVars, dirVars,
                   cfgVars, rwVars, histVars, togLists>>

CmpNext == CmpCompare

SpecCmp == CmpInit /\ [][CmpNext]_vars

-----------------------------------------------------------------------------
(* execute() on its own: one call with every combination of the override,  *)
(* the global flag, the container name and the answers of the environment, *)
(* made with no process running or with process 1 running.                 *)

ExArgs ==
    [executeLocally : Overrides, globalExecuteLocally : BOOLEAN,
     containerName : {"blank", "named"}, in : BodyInputs]

\* The slot the call takes: the least free one.
ExSlot == IF currentProcess = 0 THEN 1 ELSE 2

ExInit ==
    /\ workspaceRootValid \in BOOLEAN
    /\ currentProcess \in (IF workspaceRootValid THEN {0, 1} ELSE {0})
    /\ procs = [i \in Slots |-> IF i = currentProcess THEN NewProc ELSE NoProc]
    /\ timers = <<>>
    /\ inv = [i \in Slots |->
                IF i = currentProcess
                THEN [FreeInv EXCEPT !.pc = "spawned", !.progress = TRUE]
                ELSE FreeInv]
    /\ artifact \in Files(MaxMtime)
    /\ last = Idle
    /\ disposed = FALSE
    /\ cmpBefore = Absent
    /\ cmpAfter = Absent
    /\ cmpResult = <<>>
    /\ exArgs \in ExArgs
    /\ exResult = <<>>
    /\ ansiText = <<>>
    /\ ansiOut = <<>>
    /\ DirIdle /\ CfgIdle
    /\ RwIdle /\ HistIdle /\ TogIdle

\* The call, run up to its first await or its return.
ExCall ==
    /\ exResult = <<>>
    /\ exResult' = <<execute([State(ExSlot) EXCEPT !.iv = NewInv("none")],
                             ExSlot, exArgs.executeLocally,
                             exArgs.globalExecuteLocally,
                             exArgs.containerName, exArgs.in)>>
    /\ UNCHANGED <<orchVars, cmpVars, exArgs, ansiVars, dirVars, cfgVars,
                   rwVars, histVars, togLists>>

ExNext == ExCall

SpecEx == ExInit /\ [][ExNext]_vars

-----------------------------------------------------------------------------
(* OutputManager (src/unnamed/part_001): the text append and appendLine    *)
(* hand to the output channel. A text is a sequence of characters of five  *)
(* classes: "E" the escape character, "[", "0" a digit or ';', "m" a       *)
(* letter, "x" any other character.                                        *)

\* Longest text given to append / appendLine.
MaxText == 6

Chars == {"E", "[", "0", "m", "x"}
Texts == UNION {[1..n -> Chars] : n \in 0..MaxText}

\* [0-9;]* from position j: the position after the longest run.
RECURSIVE ParamsEnd(_, _)
ParamsEnd(text, j) ==
    IF j <= Len(text) /\ text[j] = "0" THEN ParamsEnd(text, j + 1) ELSE j

\* /\x1b\[[0-9;]*[a-zA-Z]/ at position i: the position after the match, or
\* 0 when there is no match at i.
MatchEnd(text, i) ==
    IF i + 1 <= Len(text) /\ text[i] = "E" /\ text[i + 1] = "["
    THEN LET j == ParamsEnd(text, i + 2)
         IN  IF j <= Len(text) /\ text[j] = "m" THEN j + 1 ELSE 0
    ELSE 0

\* String.prototype.replace with the g flag: one scan from left to right,
\* each match is dropped and the scan goes on after it.
RECURSIVE ReplaceFrom(_, _)
ReplaceFrom(text, i) ==
    IF i > Len(text) THEN <<>>
    ELSE IF MatchEnd(text, i) # 0 THEN ReplaceFrom(text, MatchEnd(text, i))
    ELSE <<text[i]>> \o ReplaceFrom(text, i + 1)

\* stripAnsiCodes
StripAnsiCodes(text) == ReplaceFrom(text, 1)

AnsiInit ==
    /\ workspaceRootValid = TRUE
    /\ currentProcess = 0
    /\ procs = [i \in Slots |-> NoProc]
    /\ timers = <<>>
    /\ inv = [i \in Slots |-> FreeInv]
    /\ artifact = Absent
    /\ last = Idle
    /\ disposed = FALSE
    /\ cmpBefore = Absent
    /\ cmpAfter = Absent
    /\ cmpResult = <<>>
    /\ exArgs = NoArgs
    /\ exResult = <<>>
    /\ ansiText \in Texts
    /\ ansiOut = <<>>
    /\ DirIdle /\ CfgIdle
    /\ RwIdle /\ HistIdle /\ TogIdle

\* append(text): outputChannel.append(stripAnsiCodes(text))
AnsiAppend ==
    /\ ansiOut = <<>>
    /\ ansiOut' = <<[call |-> "append", text |-> StripAnsiCodes(ansiText)]>>
    /\ UNCHANGED <<orchVars, cmpVars, exVars, ansiText, dirVars, cfgVars,
                   rwVars, histVars, togLists>>

\* appendLine(text): outputChannel.appendLine(stripAnsiCodes(text))
AnsiAppendLine ==
    /\ ansiOut = <<>>
    /\ ansiOut' = <<[call |-> "appendLine", text |-> StripAnsiCodes(ansiText)]>>
    /\ UNCHANGED <<orchVars, cmpVars, exVars, ansiText, dirVars, cfgVars,
                   rwVars, histVars, togLists>>

AnsiNext == AnsiAppend \/ AnsiAppendLine

SpecAnsi == AnsiInit /\ [][AnsiNext]_vars

-----------------------------------------------------------------------------
(* The working directory of a container-mode command (executeInDocker):    *)
(* cwd is absent or a text over the characters " " (white space), ".",     *)
(* "/" and "a" (any other character). "/sandbox" is kept as one token.     *)

\* Longest cwd text.
MaxCwd == 4

DirChars == {" ", ".", "/", "a"}
Cwds == {Undefined} \cup UNION {[1..n -> DirChars] : n \in 0..MaxCwd}

Sandbox == <<"/sandbox">>

RECURSIVE TrimStart(_)
TrimStart(text) ==
    IF text # <<>> /\ Head(text) = " " THEN TrimStart(Tail(text)) ELSE text

RECURSIVE TrimEnd(_)
TrimEnd(text) ==
    IF text # <<>> /\ text[Len(text)] = " "
    THEN TrimEnd(SubSeq(text, 1, Len(text) - 1))
    ELSE text

\* String.prototype.trim
Trim(text) == TrimEnd(TrimStart(text))

CleanCwdNone(text) == text

\* text.replace(/^\.?\//, '')
CleanCwd(text) ==
    IF Len(text) >= 2 /\ text[1] = "." /\ text[2] = "/"
    THEN SubSeq(text, 3, Len(text))
    ELSE IF Len(text) >= 1 /\ text[1] = "/" THEN Tail(text)
    ELSE text

\* cwd && cwd.trim()
CwdGiven(cwd) == cwd # Undefined /\ cwd # <<>> /\ Trim(cwd) # <<>>

\* containerWorkDir
ContainerWorkDir(cwd) ==
    IF CwdGiven(cwd) THEN Sandbox \o <<"/">> \o CleanCwd(Trim(cwd))
    ELSE Sandbox

\* dockerArgs: -w '/sandbox', and the directory of `cd <dir> && <command>`.
DockerArgs(cwd) == [w |-> Sandbox, cd |-> ContainerWorkDir(cwd)]

DirInit ==
    /\ workspaceRootValid = TRUE
    /\ currentProcess = 0
    /\ procs = [i \in Slots |-> NoProc]
    /\ timers = <<>>
    /\ inv = [i \in Slots |-> FreeInv]
    /\ artifact = Absent
    /\ last = Idle
    /\ disposed = FALSE
    /\ cmpBefore = Absent
    /\ cmpAfter = Absent
    /\ cmpResult = <<>>
    /\ exArgs = NoArgs
    /\ exResult = <<>>
    /\ ansiText = <<>>
    /\ ansiOut = <<>>
    /\ dirCwd \in Cwds
    /\ dirArgs = <<>>
    /\ CfgIdle
    /\ RwIdle /\ HistIdle /\ TogIdle

DirBuild ==
    /\ dirArgs = <<>>
    /\ dirArgs' = <<DockerArgs(dirCwd)>>
    /\ UNCHANGED <<orchVars, cmpVars, exVars, ansiVars, dirCwd, cfgVars,
                   rwVars, histVars, togLists>>

DirNext == DirBuild

SpecDir == DirInit /\ [][DirNext]_vars

-----------------------------------------------------------------------------
(* The override executeCommandInternal (extension.ts) passes to execute(): *)
(* the predefinedCommands setting is a list of strings and records, the    *)
(* user executes one of its entries or a custom command.                   *)

\* Longest predefinedCommands list.
MaxCfg == 2

CfgCommands == {"a", "b"}

\* kind "string": a bare command text; kind "record": a CommandConfig
\* whose executeLocally is true, false or absent.
CfgEntries ==
    [kind : {"string"}, command : CfgCommands, executeLocally : {"absent"}]
    \cup [kind : {"record"}, command : CfgCommands,
          executeLocally : {"true", "false", "absent"}]

CfgLists == UNION {[1..n -> CfgEntries] : n \in 0..MaxCfg}

\* The command text handed to executeCommandInternal.
PickedCommand(cfg, pick) ==
    IF pick.from = 0 THEN pick.command ELSE cfg[pick.from].command

\* The loop over predefinedCommands from entry k on: the first record whose
\* command equals the text decides, executeLocally = (cmd.executeLocally
\* === true); without one the override stays undefined.
RECURSIVE FindOverride(_, _, _)
FindOverride(cfg, command, k) ==
    IF k > Len(cfg) THEN "undefined"
    ELSE IF cfg[k].kind = "record" /\ cfg[k].command = command
    THEN (IF cfg[k].executeLocally = "true" THEN "true" ELSE "false")
    ELSE FindOverride(cfg, command, k + 1)

\* executeCommandInternal: the third argument of execute().
ExecuteLocallyOverride(cfg, command) == FindOverride(cfg, command, 1)

CfgInit ==
    /\ workspaceRootValid = TRUE
    /\ currentProcess = 0
    /\ procs = [i \in Slots |-> NoProc]
    /\ timers = <<>>
    /\ inv = [i \in Slots |-> FreeInv]
    /\ artifact = Absent
    /\ last = Idle
    /\ disposed = FALSE
    /\ cmpBefore = Absent
    /\ cmpAfter = Absent
    /\ cmpResult = <<>>
    /\ exArgs = NoArgs
    /\ exResult = <<>>
    /\ ansiText = <<>>
    /\ ansiOut = <<>>
    /\ DirIdle
    /\ RwIdle /\ HistIdle /\ TogIdle
    /\ cfgList \in CfgLists
    /\ cfgPick \in {CustomPick(c) : c \in CfgCommands}
                   \cup {[from |-> k, command |-> cfgList[k].command] :
                            k \in DOMAIN cfgList}
    /\ cfgOverride = <<>>

CfgExecute ==
    /\ cfgOverride = <<>>
    /\ cfgOverride' =
          <<ExecuteLocallyOverride(cfgList, PickedCommand(cfgList, cfgPick))>>
    /\ UNCHANGED <<orchVars, cmpVars, exVars, ansiVars, dirVars, cfgList, cfgPick,
                   rwVars, histVars, togLists>>

CfgNext == CfgExecute

SpecCfg == CfgInit /\ [][CfgNext]_vars

-----------------------------------------------------------------------------
(* The orchestrator and the function models above at rest: the start of    *)
(* the models below.                                                       *)

OrchIdle ==
    /\ workspaceRootValid = TRUE
    /\ currentProcess = 0
    /\ procs = [i \in Slots |-> NoProc]
    /\ timers = <<>>
    /\ inv = [i \in Slots |-> FreeInv]
    /\ artifact = Absent
    /\ last = Idle
    /\ disposed = FALSE

CallsIdle ==
    /\ cmpBefore = Absent
    /\ cmpAfter = Absent
    /\ cmpResult = <<>>
    /\ exArgs = NoArgs
    /\ exResult = <<>>
    /\ ansiText = <<>>
    /\ ansiOut = <<>>
    /\ DirIdle
    /\ CfgIdle

-----------------------------------------------------------------------------
(* The path rewrite (replaceCompileCommandsPath) on the content of the     *)
(* file: grep -q '/sandbox', then sed -i 's|/sandbox|<workspaceRoot>|g'.   *)
(* Texts are sequences over "/sandbox" (the marker, kept as one token),    *)
(* "/", "a" (any other character) and, in the root, "&", which sed reads   *)
(* in a replacement as the matched text.                                   *)

\* Longest workspace root and longest file content, in tokens.
MaxRoot == 2
MaxFile == 3
\* Rewrites of the same file that are looked at.
MaxRewrites == 2

RwChars == {"/sandbox", "/", "a"}
RootChars == RwChars \cup {"&"}

\* Absolute paths.
Roots ==
    {r \in UNION {[1..n -> RootChars] : n \in 1..MaxRoot} :
        r[1] \in {"/", "/sandbox"}}

FileTexts == UNION {[1..n -> RwChars] : n \in 0..MaxFile}

\* grep -q '/sandbox' file
Probe(text) ==
    IF \E k \in DOMAIN text : text[k] = "/sandbox" THEN "found" ELSE "none"

\* The replacement part of the sed script: & stands for the match.
RECURSIVE Replacement(_)
Replacement(root) ==
    IF root = <<>> THEN <<>>
    ELSE (IF Head(root) = "&" THEN <<"/sandbox">> ELSE <<Head(root)>>)
             \o Replacement(Tail(root))

\* sed 's|/sandbox|<root>|g': every match is replaced, the text put in is
\* not scanned again.
RECURSIVE Sed(_, _)
Sed(text, root) ==
    IF text = <<>> THEN <<>>
    ELSE (IF Head(text) = "/sandbox" THEN Replacement(root)
          ELSE <<Head(text)>>) \o Sed(Tail(text), root)

RwInit ==
    /\ OrchIdle
    /\ CallsIdle
    /\ rwRoot \in Roots
    /\ rwFile \in FileTexts
    /\ rwLog = <<>>
    /\ HistIdle /\ TogIdle

\* One call of replaceCompileCommandsPath on the existing file; sedOk is
\* whether execSync returns (it throws on a non-zero exit or the timeout).
RwRewrite(sedOk) ==
    /\ rwRoot # <<>>
    /\ Len(rwLog) < MaxRewrites
    /\ IF NoReplacementNeeded(Probe(rwFile))
       THEN /\ sedOk
            /\ rwFile' = rwFile
            /\ rwLog' = Append(rwLog, [result |-> "noop", file |-> rwFile])
       ELSE IF sedOk
       THEN /\ rwFile' = Sed(rwFile, rwRoot)
            /\ rwLog' = Append(rwLog, [result |-> "ok",
                                       file |-> Sed(rwFile, rwRoot)])
       ELSE /\ rwFile' = rwFile
            /\ rwLog' = Append(rwLog, [result |-> "failed", file |-> rwFile])
    /\ UNCHANGED <<orchVars, cmpVars, exVars, ansiVars, dirVars, cfgVars,
                   rwRoot, histVars, togLists>>

RwNext == \E sedOk \in BOOLEAN : RwRewrite(sedOk)

SpecRw == RwInit /\ [][RwNext]_vars

-----------------------------------------------------------------------------
(* The command history of CommandTreeProvider (commandTreeProvider.ts):    *)
(* commandHistory, its persisted copy in globalState, addToHistory and     *)
(* clearHistory. An entry is its command and its cwd; the timestamp, which *)
(* no comparison reads, is left out. Commands are numbered.                *)

maxHistorySize == 10

\* Number of commands, longest persisted history, and number of calls.
MaxHistCommands == 6
MaxStored == 12
MaxHistOps == 3

HistCwds == {"undefined", "d"}
HistItem(command, cwd) == [isString |-> FALSE, command |-> command, cwd |-> cwd]

\* The k-th of the pairs (1, undefined), (1, "d"), (2, undefined), ...
HistPair(k) == HistItem((k + 1) \div 2, IF k % 2 = 1 THEN "undefined" ELSE "d")

\* A persisted history of n distinct entries; in the old format the
\* entries without cwd are strings.
Stored(n, oldFormat) ==
    [k \in 1..n |-> [HistPair(k) EXCEPT !.isString = oldFormat /\ k % 2 = 1]]

\* loadHistory: a string becomes { command: item }.
loadHistory(savedHistory) ==
    [k \in DOMAIN savedHistory |->
        IF savedHistory[k].isString
        THEN HistItem(savedHistory[k].command, "undefined")
        ELSE savedHistory[k]]

\* findIndex(item => item.command === command && item.cwd === cwd), 0 for -1
FindIndex(history, command, cwd) ==
    IF \E k \in DOMAIN history :
          history[k].command = command /\ history[k].cwd = cwd
    THEN CHOOSE k \in DOMAIN history :
            /\ history[k].command = command /\ history[k].cwd = cwd
            /\ \A j \in 1..(k - 1) :
                  ~(history[j].command = command /\ history[j].cwd = cwd)
    ELSE 0

\* splice(index, 1)
Splice(history, index) ==
    SubSeq(history, 1, index - 1) \o SubSeq(history, index + 1, Len(history))

\* if (length > maxHistorySize) shift()
Limit(history) ==
    IF Len(history) > maxHistorySize THEN Tail(history) ELSE history

addToHistoryKeep(history, command, cwd) ==
    Limit(Append(history, HistItem(command, cwd)))

\* addToHistory: the history it leaves and saves.
addToHistory(history, command, cwd) ==
    LET index == FindIndex(history, command, cwd)
        removed == IF index > 0 THEN Splice(history, index) ELSE history
    IN  Limit(Append(removed, HistItem(command, cwd)))

RECURSIVE Reverse(_)
Reverse(s) == IF s = <<>> THEN <<>> ELSE Append(Reverse(Tail(s)), Head(s))

\* getHistoryCommands: the tree items, newest first; label 0 is the
\* placeholder 'No execution history'.
getHistoryCommands(history) ==
    IF Len(history) = 0
    THEN <<[label |-> 0, commandText |-> 0, cwd |-> "undefined"]>>
    ELSE [k \in DOMAIN history |->
            [label |-> Reverse(history)[k].command,
             commandText |-> Reverse(history)[k].command,
             cwd |-> Reverse(history)[k].cwd]]

\* The provider is constructed on any persisted history.
HistInit ==
    /\ OrchIdle
    /\ CallsIdle
    /\ RwIdle /\ TogIdle
    /\ \E n \in 0..MaxStored, oldFormat \in BOOLEAN :
          /\ histStore = Stored(n, oldFormat)
          /\ histMem = loadHistory(Stored(n, oldFormat))
    /\ histAdded = <<>>
    /\ histOps = 0

\* The provider after pairs 1..n were added, in this order, to an empty
\* history.
HistRunInit ==
    /\ OrchIdle
    /\ CallsIdle
    /\ RwIdle /\ TogIdle
    /\ \E n \in 0..maxHistorySize :
          /\ histMem = [k \in 1..n |-> HistPair(k)]
          /\ histStore = histMem
          /\ histAdded = IF n = 0 THEN <<>> ELSE <<HistPair(n)>>
    /\ histOps = 0

HistAdd(command, cwd) ==
    /\ histOps < MaxHistOps
    /\ histMem' = addToHistory(histMem, command, cwd)
    /\ histStore' = addToHistory(histMem, command, cwd)
    /\ histAdded' = <<HistItem(command, cwd)>>
    /\ histOps' = histOps + 1
    /\ UNCHANGED <<orchVars, cmpVars, exVars, ansiVars, dirVars, cfgVars,
                   rwVars, togLists>>

HistClear ==
    /\ histOps < MaxHistOps
    /\ histMem' = <<>>
    /\ histStore' = <<>>
    /\ histAdded' = <<>>
    /\ histOps' = histOps + 1
    /\ UNCHANGED <<orchVars, cmpVars, exVars, ansiVars, dirVars, cfgVars,
                   rwVars, togLists>>

HistNext ==
    \/ \E command \in 1..MaxHistCommands, cwd \in HistCwds : HistAdd(command, cwd)
    \/ HistClear

SpecHist == HistInit /\ [][HistNext]_vars

SpecHistRun == HistRunInit /\ [][HistNext]_vars

-----------------------------------------------------------------------------
(* The per-command mode toggle (toggleCommandExecuteLocally, extension.ts) *)
(* on the predefinedCommands setting; the tree item toggled is one of the  *)
(* entries of the setting.                                                 *)

\* Toggles of the same command that are looked at.
MaxToggles == 2

\* !cmd.executeLocally
Negated(executeLocally) == IF executeLocally = "true" THEN "false" ELSE "true"

\* newCommands: every string equal to the text becomes a record with
\* executeLocally true, every record with this command gets its flag
\* negated.
ToggledCommands(cfg, commandText) ==
    [k \in DOMAIN cfg |->
        IF cfg[k].command # commandText THEN cfg[k]
        ELSE IF cfg[k].kind = "string"
        THEN [kind |-> "record", command |-> cfg[k].command,
              executeLocally |-> "true"]
        ELSE [cfg[k] EXCEPT !.executeLocally = Negated(cfg[k].executeLocally)]]

TogInit ==
    /\ OrchIdle
    /\ cmpBefore = Absent
    /\ cmpAfter = Absent
    /\ cmpResult = <<>>
    /\ exArgs = NoArgs
    /\ exResult = <<>>
    /\ ansiText = <<>>
    /\ ansiOut = <<>>
    /\ DirIdle
    /\ RwIdle /\ HistIdle
    /\ cfgList \in CfgLists
    /\ cfgPick \in {[from |-> k, command |-> cfgList[k].command] :
                       k \in DOMAIN cfgList}
    /\ cfgOverride = <<>>
    /\ togLists = <<cfgList>>

\* The handler, with config.update.
TogToggle ==
    /\ togLists # <<>>
    /\ Len(togLists) <= MaxToggles
    /\ cfgList' = ToggledCommands(cfgList, cfgPick.command)
    /\ togLists' = Append(togLists, ToggledCommands(cfgList, cfgPick.command))
    /\ UNCHANGED <<orchVars, cmpVars, exVars, ansiVars, dirVars, cfgPick,
                   cfgOverride, rwVars, histVars>>

TogNext == TogToggle

SpecTog == TogInit /\ [][TogNext]_vars

-----------------------------------------------------------------------------
(* Properties                                                              *)

StopAnswer == "Stop and Execute New Command"

Has(log, kind) == \E k \in DOMAIN log : log[k][1] = kind
HasEntry(log, kind, detail) == \E k \in DOMAIN log : log[k] = <<kind, detail>>
\* Some entry of kind `first` stands before position k of the log.
Before(log, first, k) == \E j \in 1..(k - 1) : log[j][1] = first

\* Process p is running, was never sent a signal and reported no error.
Undisturbed(p) ==
    /\ procs[p].state = "running"
    /\ ~procs[p].term /\ ~procs[p].forced /\ ~procs[p].errored

\* C1: at most one spawned process is live at any instant. Stated here for
\* the processes that are running and have neither been signalled nor
\* reported an error, which are among the live processes of the claim.
C1_AtMostOneLive == Cardinality({p \in Slots : Undisturbed(p)}) <= 1

\* C2: a process is spawned while an earlier process is still live only by
\* an invocation that asked and was answered 'Stop and Execute New Command'.
\* The earlier process counted here is one that is still running after the
\* spawn and was never signalled.
C2_SpawnOnlyAfterConfirm ==
    (Has(last.log, "spawn") /\ \E q \in Slots \ {last.slot} : Undisturbed(q))
        => HasEntry(last.log, "answer", StopAnswer)

Declined(l) ==
    \E k \in DOMAIN l.log : l.log[k][1] = "answer" /\ l.log[k][2] # StopAnswer

\* C3: a declined or dismissed confirmation ends the request and leaves the
\* handle, every process, the timers and the artifact as they were; the
\* request makes no container-runtime call, takes no snapshot and spawns
\* nothing.
C3_DeclineTouchesNothing ==
    [][Declined(last') =>
          /\ currentProcess' = currentProcess
          /\ procs' = procs
          /\ timers' = timers
          /\ artifact' = artifact
          /\ inv'[last'.slot] = FreeInv
          /\ \A k \in DOMAIN last'.log :
                last'.log[k][1] \notin {"inspect", "list", "start", "before", "spawn"}]_vars

C3_Witness ==
    /\ HasEntry(last.log, "answer", "dismissed")
    /\ currentProcess # 0
    /\ Undisturbed(currentProcess)

TimerExpires == timers # <<>> /\ timers' = Tail(timers)

\* C4: a SIGKILL issued by the timer of stop() goes to the process that this
\* stop() sent SIGTERM to.
C4_ForcedKillAfterTerm ==
    [][\A p \in Slots :
          (TimerExpires /\ procs'[p].forced /\ ~procs[p].forced)
              => (p = Head(timers) /\ procs[p].term)]_vars

\* C5: when the grace period of a stop() expires, the process it sent
\* SIGTERM to is sent SIGKILL if and only if it has not exited.
C5_ForcedKillIffNotExited ==
    [][TimerExpires =>
          ((procs[Head(timers)].state = "running") <=> procs'[Head(timers)].forced)]_vars

\* C6: in container mode a process is spawned only if the most recent
\* status query of the invocation reported running = true.
C6_SpawnOnlyWhenRunning ==
    \A k \in DOMAIN last.log :
        (last.log[k][1] = "spawn" /\ HasEntry(last.log, "mode", "docker")) =>
            \E q \in 1..(k - 1) :
                /\ last.log[q] = <<"inspect", "true">>
                /\ \A r \in (q + 1)..(k - 1) : last.log[r][1] # "inspect"

C6_Witness ==
    /\ HasEntry(last.log, "start", "ok")
    /\ Has(last.log, "spawn")
    /\ procs[last.slot].state = "running"

\* C7 as claimed: once the close handling of an invocation has ended, the
\* refresh was invoked iff the process exited with code 0 and the
\* snapshots compared as changed.
C7_RefreshIffChanged ==
    (Has(last.log, "close") /\ inv[last.slot].pc = "free") =>
        (Has(last.log, "refresh")
            <=> (HasEntry(last.log, "close", "zero")
                 /\ HasEntry(last.log, "compare", "changed")))

\* C7 as amended: the refresh is invoked iff the process exited with code
\* 0, the snapshots compared as changed and getCommands lists a clangd
\* command; whatever the rewrite did.
C7_RefreshIffChangedAndAvailable ==
    Has(last.log, "refresh")
        <=> (/\ HasEntry(last.log, "close", "zero")
             /\ HasEntry(last.log, "compare", "changed")
             /\ \E c \in CommandLists \ {"none"} :
                    HasEntry(last.log, "getCommands", c))

C7_Witness ==
    /\ Has(last.log, "refresh")
    /\ HasEntry(last.log, "rewrite", "failed")

\* C8: the path rewrite is invoked only after the snapshots of the same
\* invocation compared as changed.
C8_RewriteOnlyWhenChanged ==
    /\ \A k \in DOMAIN last.log :
          last.log[k][1] = "rewrite" =>
              \E j \in 1..(k - 1) : last.log[j] = <<"compare", "changed">>
    /\ HasEntry(last.log, "compare", "unchanged") => ~Has(last.log, "rewrite")

C8_Witness ==
    /\ HasEntry(last.log, "close", "zero")
    /\ HasEntry(last.log, "compare", "unchanged")

\* C9: isCompileCommandsUpdated is true iff the file went from absent to
\* present, or is present in both snapshots with a strictly greater
\* modification time in the second.
C9_UpdatedIffNewer ==
    cmpResult # <<>> =>
        (cmpResult[1] <=>
            \/ ~cmpBefore.exists /\ cmpAfter.exists
            \/ /\ cmpBefore.exists /\ cmpAfter.exists
               /\ cmpAfter.mtime > cmpBefore.mtime)

C9_Witness ==
    /\ cmpResult = <<FALSE>>
    /\ cmpBefore.exists /\ cmpAfter.exists
    /\ cmpAfter.mtime = cmpBefore.mtime

AfterSteps ==
    {"after", "compare", "probe", "sed", "rewrite", "getCommands", "refresh",
     "restarted"}

\* C10: the before snapshot is taken before the spawn; the after snapshot,
\* the comparison, the rewrite and the refresh come after the close event
\* of the process, never while it is running.
C10_SnapshotOrder ==
    /\ \A k \in DOMAIN last.log :
          /\ last.log[k][1] = "spawn" => Before(last.log, "before", k)
          /\ last.log[k][1] \in AfterSteps => Before(last.log, "close", k)
    /\ \A i \in Slots :
          procs[i].state = "running" =>
              /\ \A k \in DOMAIN inv[i].log : inv[i].log[k][1] \notin AfterSteps
              /\ last.slot = i =>
                    \A k \in DOMAIN last.log : last.log[k][1] \notin AfterSteps

C10_Witness ==
    /\ Has(last.log, "after")
    /\ Has(last.log, "restarted")

\* The condition the mode resolution is claimed to follow.
OverrideOrGlobal == exArgs.executeLocally = "true" \/ exArgs.globalExecuteLocally

\* C11: execute runs locally iff the per-command override is exactly true
\* or the global flag is true; in every other combination the resolved mode
\* is the container (where it runs, or is rejected for a blank container
\* name). An override of false with the global flag true runs locally.
C11_LocalIffOverrideOrGlobal ==
    (exResult # <<>> /\ workspaceRootValid) =>
        /\ exResult[1].iv.mode = "local" <=> OverrideOrGlobal
        /\ ~OverrideOrGlobal =>
              \/ exResult[1].iv.mode = "docker"
              \/ exResult[1].log = <<<<"reject", "container">>>>
        /\ HasEntry(exResult[1].log, "mode", "local") => OverrideOrGlobal
        /\ HasEntry(exResult[1].log, "mode", "docker") => ~OverrideOrGlobal

C11_Witness ==
    /\ exResult # <<>>
    /\ exArgs.executeLocally = "false" /\ exArgs.globalExecuteLocally
    /\ HasEntry(exResult[1].log, "mode", "local")
    /\ Has(exResult[1].log, "spawn")

C13_OnlyCleanExitChecksArtifact ==
    /\ (\E k \in DOMAIN last.log : last.log[k][1] \in AfterSteps)
          => HasEntry(last.log, "close", "zero")
    /\ (HasEntry(last.log, "close", "signal")
        \/ HasEntry(last.log, "close", "nonzero"))
          => \A k \in DOMAIN last.log : last.log[k][1] \notin AfterSteps
    /\ HasEntry(last.log, "close", "zero")
          => Has(last.log, "after") /\ Has(last.log, "compare")

C13_Witness ==
    /\ HasEntry(last.log, "close", "nonzero")
    /\ artifact.exists
    /\ currentProcess = 0

\* The invocation in slot p was cancelled through its progress
\* notification and its process has not closed yet.
Cancelled(p) ==
    /\ inv[p].pc = "spawned" /\ ~inv[p].progress
    /\ procs[p].state = "running" /\ ~procs[p].errored

\* C14: the close of the process of a cancelled invocation is never
\* reported as a failure with an exit code and never leads to the artifact
\* check, whatever the process closes with.
C14_CancelledNeverFailed ==
    [][\A p \in Slots :
          (Cancelled(p) /\ last'.slot = p /\ Has(last'.log, "close")) =>
              /\ ~HasEntry(last'.log, "close", "nonzero")
              /\ ~Has(last'.log, "after")]_vars

\* C15: in container mode start is called at most once, directly after a
\* first inspect that succeeded and reported not running; a failed start
\* ends the invocation there, and a successful start is followed by one
\* inspect which, unless it reports running, ends the invocation: no
\* spawn, no further call.
C15_StartOnceNoRetry ==
    /\ Cardinality({k \in DOMAIN last.log : last.log[k][1] = "start"}) <= 1
    /\ \A k \in DOMAIN last.log :
          last.log[k][1] = "start" =>
              /\ k > 1 /\ last.log[k - 1] = <<"inspect", "false">>
              /\ \A j \in 1..(k - 2) : last.log[j][1] # "inspect"
              /\ last.log[k][2] # "ok" =>
                    k = Len(last.log) /\ inv[last.slot] = FreeInv
              /\ last.log[k][2] = "ok" =>
                    /\ k < Len(last.log) /\ last.log[k + 1][1] = "inspect"
                    /\ last.log[k + 1][2] # "true" =>
                          k + 1 = Len(last.log) /\ inv[last.slot] = FreeInv

C15_Witness ==
    /\ HasEntry(last.log, "start", "ok")
    /\ last.log[Len(last.log)] = <<"inspect", "false">>

\* C16: when inspect reports that the container does not exist, the
\* invocation ends with the container-not-found error, without start or
\* spawn; the diagnostic shows the listed names when there are some and the
\* empty-list message otherwise, also when the listing itself fails.
C16_NotFoundOutcome ==
    HasEntry(last.log, "inspect", "notfound") =>
        /\ Has(last.log, "notfound")
        /\ ~Has(last.log, "start") /\ ~Has(last.log, "spawn")
        /\ IF HasEntry(last.log, "list", "names")
           THEN HasEntry(last.log, "diagnostic", "names")
           ELSE HasEntry(last.log, "diagnostic", "empty")

\* C17: in local mode, when the working directory given does not exist,
\* the invocation ends before the spawn: it takes no snapshot, spawns no
\* process and does not set the handle to a new process.
C17_MissingDirAborts ==
    [][Has(last'.log, "dir_missing") =>
          /\ ~Has(last'.log, "before") /\ ~Has(last'.log, "spawn")
          /\ currentProcess' \in {currentProcess, 0}
          /\ \A p \in Slots :
                procs'[p].state = "running" => procs[p].state = "running"
          /\ inv'[last'.slot] = FreeInv]_vars

C17_Witness ==
    /\ Has(last.log, "dir_missing")
    /\ HasEntry(last.log, "answer", StopAnswer)
    /\ currentProcess = 0

\* C18: clangd.restart is invoked only when it is a registered command.
C18_RefreshOnlyIfRegistered ==
    Has(last.log, "refresh") => HasEntry(last.log, "getCommands", "restart")

\* C19: the text append and appendLine hand to the output channel holds no
\* escape sequence ESC [ (digit or ';')* letter.
C19_NoEscapeInOutput ==
    ansiOut # <<>> =>
        \A i \in 1..Len(ansiOut[1].text) : MatchEnd(ansiOut[1].text, i) = 0

\* C20: the close or error handling of a process never clears or changes a
\* handle that refers to another process.
C20_OldEventKeepsHandle ==
    [][\A p \in Slots :
          (/\ last'.slot = p
           /\ Has(last'.log, "close") \/ Has(last'.log, "error")
           /\ currentProcess \notin {0, p})
              => currentProcess' = currentProcess]_vars

\* C21: the promise returned by execute does not resolve before the
\* spawned process has reported close or error or the invocation was
\* cancelled. ("resolved" marks a resolution that happens at the spawn.)
C21_ResolvesAfterOutcome ==
    Has(last.log, "resolved") =>
        \/ Has(last.log, "close")
        \/ Has(last.log, "error")
        \/ Has(last.log, "cancel")

\* The close handler of the invocation in slot p is suspended at an await.
CloseRunning(p) == inv[p].pc \in {"getCommands", "restart"}

\* C22: once a process has reported close, the handle is cleared and the
\* invocation is finished, at once or after the awaits of restartClangd,
\* whatever the rewrite and the refresh did; nothing is thrown out of the
\* close handling.
C22_CloseEventuallyResolves ==
    /\ [][(Has(last'.log, "close")
           /\ inv'[last'.slot].pc \notin {"getCommands", "restart"})
            => /\ currentProcess' = 0
               /\ inv'[last'.slot] = FreeInv
               /\ ~Has(last'.log, "throw")]_vars
    /\ \A p \in Slots :
          CloseRunning(p) ~> (inv[p].pc = "free" /\ currentProcess = 0)

C22_Witness ==
    /\ HasEntry(last.log, "rewrite", "failed")
    /\ HasEntry(last.log, "restarted", "failed")
    /\ currentProcess = 0
    /\ inv[last.slot] = FreeInv

\* C24: sed runs only when the file exists and the probe found the marker;
\* when the file is absent or the probe finds nothing the rewriter reports
\* a no-op, runs no sed and leaves the file as it is.
C24_RewriteOnlyWithMarker ==
    [][/\ Has(last'.log, "sed") =>
             /\ HasEntry(last'.log, "probe", "found")
             /\ ~HasEntry(last'.log, "rewrite", "absent")
       /\ (HasEntry(last'.log, "rewrite", "absent")
           \/ HasEntry(last'.log, "probe", "none")) =>
             /\ ~Has(last'.log, "sed")
             /\ HasEntry(last'.log, "rewrite", "absent")
                \/ HasEntry(last'.log, "rewrite", "noop")
             /\ artifact' = artifact
       /\ (Has(last'.log, "rewrite") /\ ~Has(last'.log, "getCommands")) =>
             (artifact.exists <=> ~HasEntry(last'.log, "rewrite", "absent"))]_vars

C24_Witness ==
    /\ HasEntry(last.log, "probe", "none")
    /\ HasEntry(last.log, "rewrite", "noop")
    /\ artifact.exists

\* C26: a process that is running and was never signalled is the one the
\* handle refers to: isRunning() is true and stop() sends it SIGTERM.
C26_LiveProcessIsHandle ==
    \A p \in Slots :
        Undisturbed(p) =>
            /\ isRunning(currentProcess)
            /\ stop([cp |-> currentProcess, ps |-> procs, ts |-> timers]).ps[p].term

\* C27: a handler of an invocation that ends without spawning leaves the
\* handle and every running process as they were.
C27_NoSpawnNoStop ==
    [][(Has(last'.log, "mode") /\ ~Has(last'.log, "spawn")) =>
          /\ currentProcess' = currentProcess
          /\ \A p \in Slots :
                procs[p].state = "running" => procs'[p] = procs[p]]_vars

\* C28: a process whose error event was reported gets no second outcome
\* reported when it closes.
C28_OneOutcome ==
    [][\A p \in Slots :
          (procs[p].state = "running" /\ procs[p].errored /\ last'.slot = p)
              => ~Has(last'.log, "close")]_vars

\* C29: after dispose() the handle is absent and no process is left
\* running without having been sent a signal.
C29_DisposeKillsAll ==
    disposed => (currentProcess = 0 /\ \A p \in Slots : ~Undisturbed(p))

\* C30: the validity of the workspace root never changes, and while it is
\* invalid every execute call is rejected at once: no prompt, no runtime
\* call, no snapshot, no spawn, nothing changed.
C30_InvalidRootRejects ==
    [][/\ workspaceRootValid' = workspaceRootValid
       /\ (~workspaceRootValid /\ last'.slot # 0) =>
             /\ last'.log = <<<<"reject", "root">>>>
             /\ currentProcess' = currentProcess
             /\ procs' = procs
             /\ timers' = timers
             /\ artifact' = artifact
             /\ inv' = inv]_vars

C30_Witness ==
    /\ ~workspaceRootValid
    /\ last.log = <<<<"reject", "root">>>>

\* The trimmed working directory without one leading "./" or "/".
Cleaned(text) ==
    IF Len(text) >= 2 /\ SubSeq(text, 1, 2) = <<".", "/">>
    THEN SubSeq(text, 3, Len(text))
    ELSE IF Len(text) >= 1 /\ SubSeq(text, 1, 1) = <<"/">>
    THEN SubSeq(text, 2, Len(text))
    ELSE text

\* C23: docker exec is given '/sandbox' as working directory and
\* 'cd <dir> && <command>', where <dir> is '/sandbox' when the working
\* directory is absent or blank and otherwise '/sandbox/' followed by the
\* trimmed working directory without one leading './' or '/'; <dir> starts
\* with the sandbox root.
C23_ContainerDir ==
    dirArgs # <<>> =>
        /\ dirArgs[1].w = <<"/sandbox">>
        /\ dirArgs[1].cd[1] = "/sandbox"
        /\ IF dirCwd = Undefined \/ \A k \in DOMAIN dirCwd : dirCwd[k] = " "
           THEN dirArgs[1].cd = <<"/sandbox">>
           ELSE dirArgs[1].cd = <<"/sandbox", "/">> \o Cleaned(Trim(dirCwd))

C23_Witness ==
    /\ dirCwd = <<" ", ".", "/", "a">>
    /\ dirArgs # <<>>
    /\ dirArgs[1].cd = <<"/sandbox", "/", "a">>

\* C25: the override passed to execute is true only when the entry the
\* command was selected from is a record with executeLocally = true, and
\* it is absent for string entries and for commands not in the list.
C25_OverrideFromSelectedEntry ==
    cfgOverride # <<>> =>
        /\ (cfgPick.from # 0 /\ cfgOverride[1] = "true") =>
              /\ cfgList[cfgPick.from].kind = "record"
              /\ cfgList[cfgPick.from].executeLocally = "true"
        /\ (cfgPick.from # 0 /\ cfgList[cfgPick.from].kind = "string")
              => cfgOverride[1] = "undefined"
        /\ (cfgPick.from = 0
            /\ \A k \in DOMAIN cfgList : cfgList[k].command # cfgPick.command)
              => cfgOverride[1] = "undefined"

\* C31: after a successful rewrite the file holds no '/sandbox', and the
\* rewrite that follows it is a no-op that leaves the file as it is.
C31_RewriteIdempotent ==
    \A k \in DOMAIN rwLog :
        rwLog[k].result = "ok" =>
            /\ Probe(rwLog[k].file) = "none"
            /\ k < Len(rwLog) =>
                  /\ rwLog[k + 1].result = "noop"
                  /\ rwLog[k + 1].file = rwLog[k].file

\* C32: after every addToHistory and clearHistory call, whatever history
\* was loaded, the history has at most 10 entries, and an add of a new pair
\* to a full history removes the oldest entry.
C32_HistoryBounded ==
    [][histOps' > histOps =>
          /\ Len(histMem') <= 10
          /\ (/\ histAdded' # <<>>
              /\ Len(histMem) >= 10
              /\ \A k \in DOMAIN histMem : histMem[k] # histAdded'[1])
                => histMem' = Append(Tail(histMem), histAdded'[1])]_vars

\* C33: starting from an empty history no two entries have the same
\* command and cwd, the pair added last (since the last clear) is the last
\* entry and the first item of the listing, and the persisted history is
\* the history in memory.
C33_HistoryDistinctNewestLast ==
    /\ \A j, k \in DOMAIN histMem :
          (histMem[j].command = histMem[k].command
           /\ histMem[j].cwd = histMem[k].cwd) => j = k
    /\ histStore = histMem
    /\ histAdded # <<>> =>
          /\ histMem # <<>>
          /\ histMem[Len(histMem)] = histAdded[1]
          /\ getHistoryCommands(histMem)[1].commandText = histAdded[1].command
          /\ getHistoryCommands(histMem)[1].cwd = histAdded[1].cwd

\* An add to a full history that dropped the oldest entry, followed by an
\* add of a pair the history held.
C33_Witness ==
    /\ histOps = 2
    /\ Len(histMem) = 10
    /\ histMem[1] = HistPair(2)
    /\ histMem[9] = HistPair(11)
    /\ histAdded = <<HistPair(5)>>

\* C34: a toggle flips the override executeCommandInternal resolves for
\* the command text (absent or false becomes true, true becomes false),
\* and two toggles give back the mode resolved at first (true or not).
C34_ToggleFlipsOverride ==
    /\ \A k \in 1..(Len(togLists) - 1) :
          LET before == ExecuteLocallyOverride(togLists[k], cfgPick.command)
              after == ExecuteLocallyOverride(togLists[k + 1], cfgPick.command)
          IN  /\ before \in {"undefined", "false"} => after = "true"
              /\ before = "true" => after = "false"
    /\ Len(togLists) >= 3 =>
          (ExecuteLocallyOverride(togLists[3], cfgPick.command) = "true"
              <=> ExecuteLocallyOverride(togLists[1], cfgPick.command) = "true")

=============================================================================
